---- MODULE Spec2Model ----
(***************************************************************************)
(* Model of last_project_activity.py: folder enumeration, the three        *)
(* activity probes, the per-project aggregation, the worker pool of main,  *)
(* the final sort and the report writer.                                   *)
(*                                                                         *)
(* Python values are encoded as follows.                                   *)
(*   None / optional value : <<>> is None, <<x>> is the value x            *)
(*   datetime              : [t |-> ticks, aware |-> has a UTC offset]     *)
(*   str                   : a TLA+ string, concatenated with \o           *)
(***************************************************************************)
EXTENDS Integers, Sequences, FiniteSets, TLC

VARIABLES
    pc,                \* position of main()
    credentials_file,  \* what Credentials.from_authorized_user_file finds
    hierarchy,         \* the folder hierarchy served by Resource Manager
    max_workers,       \* args.max_workers
    stack,             \* call stack of traverse_folder
    searched,          \* folders whose search_projects request was issued
    projects,          \* the list built by get_projects_recursive
    tasks,             \* the futures of the pool, in submission order
    projects_activity, \* the result list of main
    now,               \* the wall clock
    errors_logged,     \* number of logging.error calls so far
    report             \* the saved workbook's data rows, None if no file

vars == <<pc, credentials_file, hierarchy, max_workers, stack, searched,
          projects, tasks, projects_activity, now, errors_logged, report>>

----------------------------------------------------------------------------
(* Bounds of the model *)

MaxProjects == 2       \* project entries under the root folder in a full run
MaxFolders == 2        \* folders besides the root when only enumerating
MaxWorkers == 2        \* largest --max_workers tried
MaxTick == 1           \* how far the clock advances during a run
MaxStamps == 2         \* timestamps in one probe response
MaxReport == 3         \* records in a list handed to the sort
DayTicks == 2          \* clock ticks in one day

----------------------------------------------------------------------------
(* Python values *)

None == <<>>
Some(x) == <<x>>
Val(o) == o[1]

\* Truth value of an optional str: None and "" are both false.
Truthy(s) == s # None /\ Val(s) # ""

Stamp(t, aware) == [t |-> t, aware |-> aware]

\* datetime comparison with < or > raises TypeError between an offset-naive
\* and an offset-aware value.
Comparable(a, b) == a.aware = b.aware

TypeErrorMsg == "can't compare offset-naive and offset-aware datetimes"
ApiNotEnabled == "API not enabled"

\* datetime.datetime.min, the smallest datetime, offset-naive.
DatetimeMin == Stamp(-1000, FALSE)

----------------------------------------------------------------------------
(* The probes *)

ProbeResult(activity, error) == [activity |-> activity, error |-> error]

\* The running maximum kept by a probe's loops:
\*   if latest_activity is None or x > latest_activity: latest_activity = x
RECURSIVE LatestOf(_, _)
LatestOf(stamps, latest) ==
    IF stamps = <<>> THEN [raised |-> FALSE, latest |-> latest]
    ELSE LET x == Head(stamps) IN
         IF latest = None THEN LatestOf(Tail(stamps), Some(x))
         ELSE IF ~Comparable(x, Val(latest))
              THEN [raised |-> TRUE, latest |-> None]
              ELSE LatestOf(Tail(stamps),
                            IF x.t > Val(latest).t THEN Some(x) ELSE latest)

\* str(e) of the exception a response stands for.
ExcText(resp) ==
    IF resp.not_configured THEN resp.msg \o " accessNotConfigured" ELSE resp.msg

check_compute_last_activity(resp) ==
    IF resp.kind = "ok"
    THEN LET f == LatestOf(resp.stamps, None) IN
         IF f.raised THEN ProbeResult(None, Some(TypeErrorMsg))
         ELSE ProbeResult(f.latest, None)
    ELSE IF resp.kind = "http_error" /\ resp.status = 403 /\ resp.not_configured
         THEN ProbeResult(None, Some(ApiNotEnabled))
         ELSE ProbeResult(None, Some(ExcText(resp)))

check_storage_last_activity(resp) ==
    IF resp.kind = "ok"
    THEN LET f == LatestOf(resp.stamps, None) IN
         IF f.raised THEN ProbeResult(None, Some(TypeErrorMsg))
         ELSE ProbeResult(f.latest, None)
    ELSE IF resp.not_configured
         THEN ProbeResult(None, Some(ApiNotEnabled))
         ELSE ProbeResult(None, Some(ExcText(resp)))

check_api_usage_last_activity(resp, clock) ==
    IF resp.kind = "ok"
    THEN IF resp.services THEN ProbeResult(Some(Stamp(clock, TRUE)), None)
         ELSE ProbeResult(None, None)
    ELSE IF resp.kind = "http_error" /\ resp.status = 403 /\ resp.not_configured
         THEN ProbeResult(None, Some(ApiNotEnabled))
         ELSE ProbeResult(None, Some(ExcText(resp)))

----------------------------------------------------------------------------
(* The aggregator *)

RECURSIVE Join(_)
\* "; ".join(access_issues)
Join(parts) ==
    IF Len(parts) = 1 THEN parts[1]
    ELSE parts[1] \o "; " \o Join(Tail(parts))

Activity(project_id, date, source, issues) ==
    [project_id |-> project_id, last_activity_date |-> date,
     activity_source |-> source, access_issues |-> issues]

\* Mutant of Issue: the source prefix is left out.
IssueWithoutPrefix(prefix, error) == IF Truthy(error) THEN <<Val(error)>> ELSE <<>>

\* access_issues.append(f"<prefix>{error}") under if error:
Issue(prefix, error) == IF Truthy(error) THEN <<prefix \o Val(error)>> ELSE <<>>

\* The probe results a run of get_project_last_activity saw (api is None when
\* the Service-Usage probe was not invoked), and the record it returned.
Frame(compute, storage, api, raised, info) ==
    [compute |-> compute, storage |-> storage, api |-> api,
     raised |-> raised, info |-> info]

\* Mutant of Later: a tie replaces the timestamp kept so far.
LaterOrSame(a, b) == a.t >= b.t

\* x_activity > last_activity_date
Later(a, b) == a.t > b.t

\* Mutant of FoldProbe: the date is replaced but the source is not.
FoldProbeKeepsSource(best, probe, name) ==
    IF probe.activity # None
       /\ (best.date = None \/ Val(probe.activity).t > Val(best.date).t)
    THEN [date |-> probe.activity, source |-> best.source]
    ELSE best

\* if x_activity and (last_activity_date is None or x_activity > last_activity_date):
\*     last_activity_date = x_activity; activity_source = name
\* A datetime is always true. best is the pair kept so far.
FoldProbe(best, probe, name) ==
    IF probe.activity # None
       /\ (best.date = None \/ Later(Val(probe.activity), Val(best.date)))
    THEN [date |-> probe.activity, source |-> name]
    ELSE best

\* Whether the comparison in FoldProbe is evaluated and raises TypeError.
FoldRaises(best, probe) ==
    /\ probe.activity # None
    /\ best.date # None
    /\ ~Comparable(Val(probe.activity), Val(best.date))

\* if api_activity: last_activity_date = api_activity; activity_source = "API Usage"
FoldApiUsage(best, probe) ==
    IF probe.activity # None
    THEN [date |-> probe.activity, source |-> "API Usage"]
    ELSE best

\* Mutant of ErrorRecord: the failure is reported as a project without activity.
ErrorRecordAsNone(project_id, msg) ==
    [project_id |-> project_id, last_activity_date |-> <<>>,
     activity_source |-> "None", access_issues |-> <<msg>>]

\* The record built by the except branch.
ErrorRecord(project_id, msg) == Activity(project_id, None, "Error", Some(msg))

\* Whether the Service-Usage probe is consulted: if last_activity_date is None
NeedsApiUsage(best) == best.date = None

RunAggregation(project_id, cresp, sresp, aresp, clock) ==
    LET best0 == [date |-> None, source |-> "None"]
        c == check_compute_last_activity(cresp)
        issues1 == Issue("Compute: ", c.error)
        best1 == FoldProbe(best0, c, "Compute Engine")
        s == check_storage_last_activity(sresp)
        issues2 == issues1 \o Issue("Storage: ", s.error)
        best2 == FoldProbe(best1, s, "Cloud Storage")
        a == check_api_usage_last_activity(aresp, clock)
        issues3 == issues2 \o Issue("API: ", a.error)
    IN  IF FoldRaises(best1, s)
        THEN Frame(c, s, None, TRUE, ErrorRecord(project_id, TypeErrorMsg))
        ELSE IF NeedsApiUsage(best2)
        THEN LET best3 == FoldApiUsage(best2, a) IN
             Frame(c, s, Some(a), FALSE,
                   Activity(project_id, best3.date, best3.source,
                            IF issues3 = <<>> THEN None ELSE Some(Join(issues3))))
        ELSE Frame(c, s, None, FALSE,
                   Activity(project_id, best2.date, best2.source,
                            IF issues2 = <<>> THEN None ELSE Some(Join(issues2))))

get_project_last_activity(project_id, cresp, sresp, aresp, clock) ==
    RunAggregation(project_id, cresp, sresp, aresp, clock).info

----------------------------------------------------------------------------
(* What the environment may answer *)

SeqsUpTo(S, n) == UNION {[1..k -> S] : k \in 0..n}

OkStamps(stamps) ==
    [kind |-> "ok", stamps |-> stamps, services |-> FALSE,
     status |-> 200, not_configured |-> FALSE, msg |-> ""]
OkServices(present) ==
    [kind |-> "ok", stamps |-> <<>>, services |-> present,
     status |-> 200, not_configured |-> FALSE, msg |-> ""]
HttpError(status, not_configured) ==
    [kind |-> "http_error", stamps |-> <<>>, services |-> FALSE,
     status |-> status, not_configured |-> not_configured, msg |-> "HttpError"]
OtherError(not_configured, msg) ==
    [kind |-> "exception", stamps |-> <<>>, services |-> FALSE,
     status |-> 0, not_configured |-> not_configured, msg |-> msg]

Errors ==
    {HttpError(403, TRUE), HttpError(403, FALSE), HttpError(400, TRUE),
     OtherError(FALSE, "timed out"), OtherError(TRUE, "Forbidden"),
     OtherError(FALSE, "")}

\* Responses tried when one aggregation is examined on its own.
ProbeTimes == 1..MaxStamps
ComputeResponses ==
    {OkStamps(s) : s \in SeqsUpTo({Stamp(t, a) : t \in ProbeTimes, a \in BOOLEAN},
                                  MaxStamps)} \cup Errors
StorageResponses ==
    {OkStamps(s) : s \in SeqsUpTo({Stamp(t, TRUE) : t \in ProbeTimes}, MaxStamps)}
    \cup Errors
ApiResponses == {OkServices(TRUE), OkServices(FALSE)} \cup Errors

\* Responses tried in a full run: a VM created five days before the run
\* started (with or without a UTC offset in its creationTimestamp), a bucket
\* created four days before it, a Service Usage API that lists services or
\* is not enabled.
FiveDaysAgo == 0 - 5 * DayTicks
RunComputeResponses ==
    {OkStamps(<<>>), OkStamps(<<Stamp(FiveDaysAgo, TRUE)>>),
     OkStamps(<<Stamp(FiveDaysAgo, FALSE)>>)}
RunStorageResponses ==
    {OkStamps(<<>>), OkStamps(<<Stamp(FiveDaysAgo + DayTicks, TRUE)>>)}
RunApiResponses == {OkServices(TRUE), HttpError(403, TRUE)}

ProjectIds == {"a", "b"}
Detached == 0 - 1
Root == 0

\* A hierarchy gives every folder its parent (Detached: not under the root
\* at all) and the projects directly in it.
Folder(parent, content) == [parent |-> parent, projects |-> content]

\* Acyclic by construction: a folder's parent has a smaller id.
Hierarchies(n, contents) ==
    {[f \in 0..n |-> Folder(IF f = Root THEN Detached ELSE par[f], con[f])] :
        par \in {p \in [0..n -> (0..n) \cup {Detached}] :
                    \A f \in 0..n : p[f] < f},
        con \in [0..n -> contents]}

\* Full runs: the root holds the first project entry, its one subfolder the rest.
RunHierarchies ==
    {[f \in 0..1 |-> Folder(IF f = Root THEN Detached ELSE Root,
                            IF f = Root
                            THEN [i \in 1..(IF l = <<>> THEN 0 ELSE 1) |-> l[i]]
                            ELSE [i \in 1..(Len(l) - 1) |-> l[i + 1]])] :
        l \in SeqsUpTo(ProjectIds, MaxProjects)}

----------------------------------------------------------------------------
(* Initial states *)

InitWith(creds, hier, workers) ==
    /\ pc = "credentials"
    /\ credentials_file \in creds
    /\ hierarchy \in hier
    /\ max_workers \in workers
    /\ stack = <<>>
    /\ searched = <<>>
    /\ projects = <<>>
    /\ tasks = <<>>
    /\ projects_activity = <<>>
    /\ now = 0
    /\ errors_logged = 0
    /\ report = None

Init == InitWith({"present", "missing", "malformed"}, RunHierarchies, 0..MaxWorkers)

----------------------------------------------------------------------------
(* main: credentials and enumeration *)

\* The clock moves on; it is read by the Service-Usage probe and by the writer.
Tick ==
    /\ pc \in {"pool", "sort", "write"}
    /\ now < MaxTick
    /\ now' = now + 1
    /\ UNCHANGED <<pc, credentials_file, hierarchy, max_workers, stack, searched,
                   projects, tasks, projects_activity, errors_logged, report>>

\* The catch-all of main: one logging.error, and main returns.
Abort(logged_before) ==
    /\ pc' = "done"
    /\ errors_logged' = errors_logged + logged_before + 1

\* Mutant of CredentialErrorsLogged: get_credentials re-raises without logging.
NeverLogged(file) == 0

\* get_credentials logs and re-raises DefaultCredentialsError and
\* FileNotFoundError; any other exception passes through unlogged.
CredentialErrorsLogged(file) == IF file = "missing" THEN 1 ELSE 0

\* main up to the call of get_projects_recursive.
GetCredentials ==
    /\ pc = "credentials"
    /\ IF credentials_file = "present"
       THEN /\ pc' = "enumerate"
            /\ stack' = <<[folder |-> Root, phase |-> "search", pending |-> <<>>]>>
            /\ UNCHANGED errors_logged
       ELSE /\ Abort(CredentialErrorsLogged(credentials_file))
            /\ UNCHANGED stack
    /\ UNCHANGED <<credentials_file, hierarchy, max_workers, searched, projects,
                   tasks, projects_activity, now, report>>

Top == stack[Len(stack)]
SetTop(frame) == [stack EXCEPT ![Len(stack)] = frame]

\* The name Resource Manager gives a folder, and folder.name.split('/')[-1].
FolderName(f) == <<"folders", f>>
LastPart(name) == name[Len(name)]

RECURSIVE Ascending(_)
\* The elements of a set of numbers as an ascending list.
Ascending(S) ==
    IF S = {} THEN <<>>
    ELSE LET m == CHOOSE x \in S : \A y \in S : x <= y
         IN <<m>> \o Ascending(S \ {m})

\* Mutant of ListFolders: only the first subfolder is listed.
FirstSubfolderOnly(f) ==
    LET kids == {g \in DOMAIN hierarchy : hierarchy[g].parent = f}
    IN IF kids = {} THEN <<>>
       ELSE <<(<<"folders", CHOOSE g \in kids : \A h \in kids : g <= h>>)>>

\* The subfolder names folders_client.list_folders yields for folders/<f>.
ListFolders(f) ==
    LET kids == Ascending({g \in DOMAIN hierarchy : hierarchy[g].parent = f})
    IN [i \in 1..Len(kids) |-> FolderName(kids[i])]

\* for project in projects_client.search_projects(...): projects.append(...)
SearchProjects ==
    /\ pc = "enumerate"
    /\ Top.phase = "search"
    /\ projects' = projects \o hierarchy[Top.folder].projects
    /\ searched' = Append(searched, Top.folder)
    /\ stack' = SetTop([Top EXCEPT !.phase = "list"])
    /\ UNCHANGED <<pc, credentials_file, hierarchy, max_workers, tasks,
                   projects_activity, now, errors_logged, report>>

\* for folder in folders_client.list_folders(...): the request is answered.
ListSubfolders ==
    /\ pc = "enumerate"
    /\ Top.phase = "list"
    /\ stack' = SetTop([Top EXCEPT !.phase = "iterate",
                                   !.pending = ListFolders(Top.folder)])
    /\ UNCHANGED <<pc, credentials_file, hierarchy, max_workers, searched, projects,
                   tasks, projects_activity, now, errors_logged, report>>

\* traverse_folder(folder.name.split('/')[-1])
Recurse ==
    /\ pc = "enumerate"
    /\ Top.phase = "iterate"
    /\ Top.pending # <<>>
    /\ stack' = Append(SetTop([Top EXCEPT !.pending = Tail(Top.pending)]),
                       [folder |-> LastPart(Head(Top.pending)),
                        phase |-> "search", pending |-> <<>>])
    /\ UNCHANGED <<pc, credentials_file, hierarchy, max_workers, searched, projects,
                   tasks, projects_activity, now, errors_logged, report>>

\* traverse_folder returns; the outermost return ends get_projects_recursive.
Return ==
    /\ pc = "enumerate"
    /\ Top.phase = "iterate"
    /\ Top.pending = <<>>
    /\ stack' = SubSeq(stack, 1, Len(stack) - 1)
    /\ pc' = IF Len(stack) = 1 THEN "submit" ELSE pc
    /\ UNCHANGED <<credentials_file, hierarchy, max_workers, searched, projects,
                   tasks, projects_activity, now, errors_logged, report>>

\* A Resource Manager call fails: the exception leaves get_projects_recursive.
EnumerationFails ==
    /\ pc = "enumerate"
    /\ Top.phase \in {"search", "list"}
    /\ Abort(0)
    /\ UNCHANGED <<credentials_file, hierarchy, max_workers, stack, searched,
                   projects, tasks, projects_activity, now, report>>

----------------------------------------------------------------------------
(* main: the worker pool *)

Future(project_id, state, frame) ==
    [project_id |-> project_id, state |-> state, frame |-> frame]

Running == {i \in DOMAIN tasks : tasks[i].state = "running"}

\* ThreadPoolExecutor(max_workers=...) raises ValueError unless max_workers > 0;
\* otherwise one future is submitted per entry of projects.
Submit ==
    /\ pc = "submit"
    /\ IF max_workers <= 0
       THEN /\ Abort(0)
            /\ UNCHANGED tasks
       ELSE /\ pc' = "pool"
            /\ tasks' = [i \in 1..Len(projects) |->
                            Future(projects[i], "pending", None)]
            /\ UNCHANGED errors_logged
    /\ UNCHANGED <<credentials_file, hierarchy, max_workers, stack, searched,
                   projects, projects_activity, now, report>>

\* Mutant of WorkerFree: a thread is started for every work item.
AlwaysFree == TRUE

\* The pool starts a thread for a new work item only while it has fewer than
\* max_workers threads, and every thread runs one work item at a time.
WorkerFree == Cardinality(Running) < max_workers

\* A worker thread takes the oldest queued work item.
StartTask(i) ==
    /\ pc = "pool"
    /\ i \in DOMAIN tasks
    /\ tasks[i].state = "pending"
    /\ \A j \in 1..(i - 1) : tasks[j].state # "pending"
    /\ WorkerFree
    /\ tasks' = [tasks EXCEPT ![i].state = "running"]
    /\ UNCHANGED <<pc, credentials_file, hierarchy, max_workers, stack, searched,
                   projects, projects_activity, now, errors_logged, report>>

\* The worker runs get_project_last_activity against what the three services
\* answer; the except branch of the function logs the error it absorbs.
RunTask(i, cresps, sresps, aresps) ==
    /\ pc = "pool"
    /\ i \in DOMAIN tasks
    /\ tasks[i].state = "running"
    /\ \E cresp \in cresps, sresp \in sresps, aresp \in aresps :
          LET f == RunAggregation(tasks[i].project_id, cresp, sresp, aresp, now)
          IN /\ tasks' = [tasks EXCEPT ![i].state = "finished",
                                       ![i].frame = Some(f)]
             /\ errors_logged' = errors_logged + (IF f.raised THEN 1 ELSE 0)
    /\ UNCHANGED <<pc, credentials_file, hierarchy, max_workers, stack, searched,
                   projects, projects_activity, now, report>>

\* for future in as_completed(...): result = future.result();
\* if result: projects_activity.append(result)   (a record is never empty)
Collect(i) ==
    /\ pc = "pool"
    /\ i \in DOMAIN tasks
    /\ tasks[i].state = "finished"
    /\ tasks' = [tasks EXCEPT ![i].state = "collected"]
    /\ projects_activity' = Append(projects_activity, Val(tasks[i].frame).info)
    /\ UNCHANGED <<pc, credentials_file, hierarchy, max_workers, stack, searched,
                   projects, now, errors_logged, report>>

\* as_completed is exhausted and the with block is left.
PoolExit ==
    /\ pc = "pool"
    /\ \A i \in DOMAIN tasks : tasks[i].state = "collected"
    /\ pc' = "sort"
    /\ UNCHANGED <<credentials_file, hierarchy, max_workers, stack, searched,
                   projects, tasks, projects_activity, now, errors_logged, report>>

----------------------------------------------------------------------------
(* main: the sort *)

Dated(r) == r.last_activity_date # None

\* key=lambda x: (x['last_activity_date'] is None,
\*                x['last_activity_date'] if x['last_activity_date'] else datetime.min)
SortKey(r) ==
    <<IF Dated(r) THEN 0 ELSE 1,
      IF Dated(r) THEN Val(r.last_activity_date) ELSE DatetimeMin>>

\* Mutant of KeyLess: the order is turned around.
KeyGreater(k1, k2) == k1[1] > k2[1] \/ (k1[1] = k2[1] /\ k1[2].t > k2[2].t)

\* Tuple order: the first components decide unless they are equal.
KeyLess(k1, k2) == k1[1] < k2[1] \/ (k1[1] = k2[1] /\ k1[2].t < k2[2].t)

\* Ordering two keys raises TypeError when the first components are equal and
\* the datetimes differ in having an offset.
KeyRaises(k1, k2) == k1[1] = k2[1] /\ ~Comparable(k1[2], k2[2])

SortRaises(list) ==
    \E i, j \in DOMAIN list : KeyRaises(SortKey(list[i]), SortKey(list[j]))

\* Where a record goes in an already sorted list: after every record whose
\* key is not smaller (reverse=True keeps records of equal key in order).
InsertAt(r, sorted) ==
    LET smaller == {i \in DOMAIN sorted : KeyLess(SortKey(sorted[i]), SortKey(r))}
    IN IF smaller = {} THEN Len(sorted) + 1
       ELSE CHOOSE i \in smaller : \A j \in smaller : i <= j

RECURSIVE SortedActivity(_)
\* projects_activity.sort(key=..., reverse=True)
SortedActivity(list) ==
    IF list = <<>> THEN <<>>
    ELSE LET front == SortedActivity(SubSeq(list, 1, Len(list) - 1))
             r == list[Len(list)]
             at == InsertAt(r, front)
         IN SubSeq(front, 1, at - 1) \o <<r>> \o SubSeq(front, at, Len(front))

Sort ==
    /\ pc = "sort"
    /\ IF SortRaises(projects_activity)
       THEN /\ Abort(0)
            /\ UNCHANGED projects_activity
       ELSE /\ pc' = "write"
            /\ projects_activity' = SortedActivity(projects_activity)
            /\ UNCHANGED errors_logged
    /\ UNCHANGED <<credentials_file, hierarchy, max_workers, stack, searched,
                   projects, tasks, now, report>>

----------------------------------------------------------------------------
(* The report writer *)

Cell(kind, v) == [kind |-> kind, v |-> v]

\* Mutant of DaysSince: a started day counts as a whole one.
DaysSinceRoundedUp(clock, date) == 0 - ((date.t - clock) \div DayTicks)

\* (now - activity_date).days: timedelta normalises to whole days, rounding
\* towards minus infinity.
DaysSince(clock, date) == (clock - date.t) \div DayTicks

\* activity_date.strftime('%Y-%m-%d %H:%M:%S') prints the date and time of day
\* and drops the offset.
Formatted(date) == date.t

Row(r, clock) ==
    [project_id |-> r.project_id,
     last_activity |-> IF Dated(r)
                       THEN Cell("date", Formatted(Val(r.last_activity_date)))
                       ELSE Cell("text", "No activity found"),
     activity_source |-> r.activity_source,
     days_since |-> IF Dated(r)
                    THEN Cell("int", DaysSince(clock, Val(r.last_activity_date)))
                    ELSE Cell("text", "N/A"),
     access_issues |-> IF Truthy(r.access_issues) THEN r.access_issues ELSE None]

\* now - activity_date raises TypeError for an offset-naive activity_date.
WriteRaises(list) ==
    \E i \in DOMAIN list : Dated(list[i]) /\ ~Val(list[i].last_activity_date).aware

\* write_to_excel: the rows are written in list order; any exception, wb.save
\* failing included, is logged and leaves no file.
Write ==
    /\ pc = "write"
    /\ pc' = "done"
    /\ \E saved \in BOOLEAN :
          IF saved /\ ~WriteRaises(projects_activity)
          THEN /\ report' = Some([i \in DOMAIN projects_activity |->
                                     Row(projects_activity[i], now)])
               /\ UNCHANGED errors_logged
          ELSE /\ report' = None
               /\ errors_logged' = errors_logged + 1
    /\ UNCHANGED <<credentials_file, hierarchy, max_workers, stack, searched,
                   projects, tasks, projects_activity, now>>

----------------------------------------------------------------------------
(* Specifications *)

\* A full run of main.
Next ==
    \/ Tick
    \/ GetCredentials
    \/ SearchProjects
    \/ ListSubfolders
    \/ Recurse
    \/ Return
    \/ EnumerationFails
    \/ Submit
    \/ \E i \in 1..MaxProjects : StartTask(i)
    \/ \E i \in 1..MaxProjects :
          RunTask(i, RunComputeResponses, RunStorageResponses, RunApiResponses)
    \/ \E i \in 1..MaxProjects : Collect(i)
    \/ PoolExit
    \/ Sort
    \/ Write

Spec == Init /\ [][Next]_vars

\* One aggregation on its own: main has submitted the single project of the
\* folder, and the three services may answer anything.
InitAgg ==
    /\ pc = "pool"
    /\ credentials_file = "present"
    /\ hierarchy = [f \in 0..1 |-> Folder(IF f = Root THEN Detached ELSE Root,
                                          IF f = Root THEN <<"a">> ELSE <<>>)]
    /\ max_workers = 1
    /\ stack = <<>>
    /\ searched = <<0, 1>>
    /\ projects = <<"a">>
    /\ tasks = <<Future("a", "pending", None)>>
    /\ projects_activity = <<>>
    /\ now \in 0..MaxTick
    /\ errors_logged = 0
    /\ report = None

NextAgg ==
    \/ StartTask(1)
    \/ RunTask(1, ComputeResponses, StorageResponses, ApiResponses)
    \/ Collect(1)

SpecAgg == InitAgg /\ [][NextAgg]_vars

----------------------------------------------------------------------------
(* Claims about the aggregator, checked under SpecAgg *)

\* The frames of the aggregations that have returned.
Returned == {Val(tasks[i].frame) : i \in {j \in DOMAIN tasks : tasks[j].frame # None}}

ApiActivity(f) == IF f.api = None THEN None ELSE Val(f.api).activity

\* The timestamps the Compute and Storage probes returned can be ordered.
Ordered(f) ==
    (f.compute.activity # None /\ f.storage.activity # None)
        => Val(f.compute.activity).aware = Val(f.storage.activity).aware

C4_NoneIffNothingFound ==
    \A f \in Returned :
        LET nothing == /\ f.compute.activity = None
                       /\ f.storage.activity = None
                       /\ ApiActivity(f) = None
        IN /\ (f.info.activity_source = "None")
                 <=> (f.info.last_activity_date = None /\ nothing)
           /\ nothing => f.info.last_activity_date = None

\* C4 witness: all three probes ran, none returned a timestamp, one failed.
C4_Witness ==
    \E f \in Returned :
        /\ f.compute.activity = None
        /\ f.storage.activity = None
        /\ f.api # None
        /\ ApiActivity(f) = None
        /\ f.compute.error # None
        /\ f.info.activity_source = "None"
        /\ f.info.last_activity_date = None

NotEnabled(probe) == probe.error = Some("API not enabled")

\* The entries access_issues is expected to hold for a frame: one per probe
\* that ran and reported an error, prefixed, in probe order.
ExpectedEntries(f) ==
    LET one(prefix, probe) ==
            IF probe.error # None /\ Val(probe.error) # ""
            THEN <<prefix \o Val(probe.error)>> ELSE <<>>
    IN one("Compute: ", f.compute) \o one("Storage: ", f.storage)
       \o (IF f.api = None THEN <<>> ELSE one("API: ", Val(f.api)))

ExpectedIssues(f) ==
    LET e == ExpectedEntries(f)
    IN IF Len(e) = 0 THEN None
       ELSE IF Len(e) = 1 THEN Some(e[1])
       ELSE IF Len(e) = 2 THEN Some(e[1] \o "; " \o e[2])
       ELSE Some(e[1] \o "; " \o e[2] \o "; " \o e[3])

\* C5: an "API not enabled" answer of any probe is in access_issues under its
\* prefix, entries joined by "; ", whichever probe supplied the timestamp, and
\* the date and source another probe supplied stay as that probe gave them.
C5_NotEnabledRecorded ==
    \A f \in Returned :
        /\ (NotEnabled(f.compute) \/ NotEnabled(f.storage)
            \/ (f.api # None /\ NotEnabled(Val(f.api))))
              => (~f.raised /\ f.info.access_issues = ExpectedIssues(f))
        /\ (NotEnabled(f.compute) /\ f.storage.activity # None)
              => (f.info.last_activity_date = f.storage.activity
                  /\ f.info.activity_source = "Cloud Storage")
        /\ (NotEnabled(f.storage) /\ f.compute.activity # None)
              => (f.info.last_activity_date = f.compute.activity
                  /\ f.info.activity_source = "Compute Engine")
        /\ ((NotEnabled(f.compute) \/ NotEnabled(f.storage))
            /\ ApiActivity(f) # None)
              => (f.info.last_activity_date = ApiActivity(f)
                  /\ f.info.activity_source = "API Usage")

\* C5 witness: neither Compute nor Storage is enabled, and the Service-Usage
\* probe supplied the timestamp.
C5_Witness ==
    \E f \in Returned :
        /\ NotEnabled(f.compute)
        /\ NotEnabled(f.storage)
        /\ f.info.activity_source = "API Usage"
        /\ f.info.access_issues =
              Some("Compute: API not enabled; Storage: API not enabled")

----------------------------------------------------------------------------
(* Enumeration on its own, checked under SpecEnum *)

EnumContents == {<<>>, <<"a">>, <<"b">>, <<"a", "b">>}

InitEnum == InitWith({"present"}, Hierarchies(MaxFolders, EnumContents), {1})

NextEnum ==
    \/ GetCredentials
    \/ SearchProjects
    \/ ListSubfolders
    \/ Recurse
    \/ Return
    \/ EnumerationFails

\* main is sequential code: it keeps taking its next step.
SpecEnum == InitEnum /\ [][NextEnum]_vars /\ WF_vars(NextEnum)

RECURSIVE IsAncestor(_, _)
IsAncestor(a, f) ==
    /\ hierarchy[f].parent # Detached
    /\ (hierarchy[f].parent = a \/ IsAncestor(a, hierarchy[f].parent))

TreeFolders == {f \in DOMAIN hierarchy : f = Root \/ IsAncestor(Root, f)}
Descendants(f) == {g \in DOMAIN hierarchy : IsAncestor(f, g)}

Count(seq, x) == Cardinality({i \in DOMAIN seq : seq[i] = x})
Holds(f, p) == \E i \in DOMAIN hierarchy[f].projects : hierarchy[f].projects[i] = p

RECURSIVE ContentsInOrder(_)
ContentsInOrder(order) ==
    IF order = <<>> THEN <<>>
    ELSE hierarchy[Head(order)].projects \o ContentsInOrder(Tail(order))

EnumerationResultRight ==
    /\ \A p \in ProjectIds :
          Count(projects, p) = Cardinality({f \in TreeFolders : Holds(f, p)})
    /\ Len(searched) = Cardinality(TreeFolders)
    /\ {searched[i] : i \in DOMAIN searched} = TreeFolders
    /\ \A i \in DOMAIN searched :
          {searched[j] : j \in (i + 1)..(i + Cardinality(Descendants(searched[i])))}
             = Descendants(searched[i])
    /\ projects = ContentsInOrder(searched)

\* C10: on every finite folder tree get_projects_recursive terminates, and
\* the list it returns holds a project once per folder of the tree that holds
\* it directly, nothing from outside the tree, in depth-first order with a
\* folder's own projects ahead of its subfolders', and is not deduplicated.
C10_DepthFirstEnumeration ==
    /\ [](pc = "submit" => EnumerationResultRight)
    /\ <>(pc \in {"submit", "done"})

\* C10 witness: a chain root > 1 > 2 with project "a" both in the root and in
\* folder 2, returned twice.
C10_Witness ==
    /\ pc = "submit"
    /\ hierarchy[1].parent = Root
    /\ hierarchy[2].parent = 1
    /\ Holds(Root, "a") /\ Holds(2, "a") /\ Holds(1, "b")
    /\ Count(projects, "a") = 2
    /\ projects[1] = "a"
    /\ projects[Len(projects)] = "a"

----------------------------------------------------------------------------
(* The sort and the writer on their own, checked under SpecReport *)

TenDaysAgo == 0 - 10 * DayTicks

SampleRecords ==
    {Activity("a", Some(Stamp(TenDaysAgo, TRUE)), "Compute Engine", None),
     Activity("b", Some(Stamp(TenDaysAgo, TRUE)), "Cloud Storage",
              Some("Compute: API not enabled")),
     Activity("c", Some(Stamp(0 - 1, TRUE)), "Cloud Storage", None),
     Activity("d", Some(Stamp(1, TRUE)), "Compute Engine", None),
     Activity("e", Some(Stamp(TenDaysAgo, FALSE)), "Compute Engine", None),
     Activity("f", None, "None", None),
     Activity("g", None, "Error", Some(TypeErrorMsg))}

\* main has collected the records and is about to sort them.
InitReport ==
    /\ pc = "sort"
    /\ credentials_file = "present"
    /\ hierarchy = [f \in 0..1 |-> Folder(IF f = Root THEN Detached ELSE Root, <<>>)]
    /\ max_workers = 1
    /\ stack = <<>>
    /\ searched = <<0, 1>>
    /\ projects = <<>>
    /\ tasks = <<>>
    /\ projects_activity \in SeqsUpTo(SampleRecords, MaxReport)
    /\ now = 0
    /\ errors_logged = 0
    /\ report = None

NextReport ==
    \/ Tick
    \/ Sort
    \/ Write

SpecReport == InitReport /\ [][NextReport]_vars

\* C1: after the sort the list is descending by last_activity_date and every
\* record without a date comes after every record with one.
C1_DescendingNullsLast ==
    pc = "write" =>
        \A i, j \in DOMAIN projects_activity :
            (i < j /\ Dated(projects_activity[j]))
               => /\ Dated(projects_activity[i])
                  /\ Val(projects_activity[i].last_activity_date).t
                        >= Val(projects_activity[j].last_activity_date).t

\* C9: the Days Since Activity cell of a dated record is the whole number of
\* days elapsed at the writer's now, rounded down (10 for a date exactly ten
\* days earlier), and "N/A" for a record without a date.
C9_WholeDaysElapsed ==
    (pc = "done" /\ report # None) =>
        /\ Len(Val(report)) = Len(projects_activity)
        /\ \A i \in DOMAIN projects_activity :
              LET r == projects_activity[i]
                  cell == Val(report)[i].days_since
              IN IF Dated(r)
                 THEN LET elapsed == now - Val(r.last_activity_date).t IN
                      /\ cell.kind = "int"
                      /\ cell.v * DayTicks <= elapsed
                      /\ elapsed < (cell.v + 1) * DayTicks
                      /\ (elapsed = 10 * DayTicks => cell.v = 10)
                 ELSE cell.kind = "text" /\ cell.v = "N/A"

\* C9 witness: a report with a record dated exactly ten days before the
\* writer's now (cell 10), one dated a tick before (cell 0), one undated.
C9_Witness ==
    /\ pc = "done"
    /\ report # None
    /\ \E i, j, k \in DOMAIN projects_activity :
          /\ Dated(projects_activity[i])
          /\ now - Val(projects_activity[i].last_activity_date).t = 10 * DayTicks
          /\ Val(report)[i].days_since = Cell("int", 10)
          /\ Dated(projects_activity[j])
          /\ now - Val(projects_activity[j].last_activity_date).t = 1
          /\ Val(report)[j].days_since = Cell("int", 0)
          /\ ~Dated(projects_activity[k])
          /\ Val(report)[k].days_since.kind = "text"

----------------------------------------------------------------------------
(* Claims about a full run, checked under Spec *)

Info(i) == Val(tasks[i].frame).info
Rows == Val(report)

\* The run was cut short by get_credentials or by get_projects_recursive.
SetupFailed ==
    /\ pc = "done"
    /\ (credentials_file # "present" \/ stack # <<>>)

NothingStarted ==
    /\ tasks = <<>>
    /\ projects_activity = <<>>
    /\ report = None
    /\ ~ENABLED Next

\* C8 as stated: after a fatal setup error nothing is submitted, sorted or
\* written, and the run ends with the error logged once.
C8_AbortLoggedOnce ==
    SetupFailed => (NothingStarted /\ errors_logged = 1)

\* C8 as amended: after a fatal setup error nothing is submitted, sorted or
\* written, and the run ends with the error logged once, or twice when the
\* credentials file is missing (get_credentials logs before it re-raises).
C8_AbortLogged ==
    SetupFailed =>
        /\ NothingStarted
        /\ errors_logged = IF credentials_file = "missing" THEN 2 ELSE 1

\* C8 witness: the run ended on a missing credentials file.
C8_Witness ==
    /\ SetupFailed
    /\ credentials_file = "missing"
    /\ errors_logged = 2

\* C6: never more than max_workers aggregations run at once, and when the
\* sort and the writer start every future has been collected and the result
\* list holds exactly the futures' records, one per enumerated project entry.
C6_BoundedPoolCollectsAll ==
    /\ Cardinality(Running) <= max_workers
    /\ pc \in {"sort", "write"} =>
          /\ Len(tasks) = Len(projects)
          /\ Len(projects_activity) = Len(projects)
          /\ \A i \in DOMAIN tasks :
                /\ tasks[i].state = "collected"
                /\ tasks[i].project_id = projects[i]
                /\ Info(i).project_id = projects[i]
                /\ Count(projects_activity, Info(i))
                      = Cardinality({j \in DOMAIN tasks : Info(j) = Info(i)})

\* C6 witness: two different projects ran on two workers and the second one
\* submitted was collected first.
C6_Witness ==
    /\ pc = "sort"
    /\ max_workers = 2
    /\ Len(projects) = 2
    /\ projects[1] # projects[2]
    /\ projects_activity[1].project_id = projects[2]
    /\ projects_activity[2].project_id = projects[1]

HasFrame(i) == tasks[i].frame # None
RowsOf(project_id, source) ==
    {k \in DOMAIN Rows : Rows[k].project_id = project_id
                         /\ Rows[k].activity_source = source}
TasksOf(project_id, source) ==
    {k \in DOMAIN tasks : Info(k).project_id = project_id
                          /\ Info(k).activity_source = source}

\* C7: an aggregation that raised still returns a record for its project,
\* with source "Error", no date and the exception message as access_issues;
\* "Error" appears in no other case; and a written report has one row per
\* aggregation, carrying that aggregation's project and source.
C7_RaiseBecomesErrorRecord ==
    /\ \A i \in DOMAIN tasks : HasFrame(i) =>
          /\ Val(tasks[i].frame).raised =>
                Info(i) = [project_id |-> projects[i],
                           last_activity_date |-> None,
                           activity_source |-> "Error",
                           access_issues |-> Some(TypeErrorMsg)]
          /\ Info(i).activity_source = "Error" => Val(tasks[i].frame).raised
    /\ report # None =>
          /\ Len(Rows) = Len(tasks)
          /\ \A i \in DOMAIN tasks :
                Cardinality(RowsOf(Info(i).project_id, Info(i).activity_source))
                   = Cardinality(TasksOf(Info(i).project_id, Info(i).activity_source))

\* C7 witness: a report holding the row of an aggregation that raised next to
\* the row of one that found a VM.
C7_Witness ==
    /\ pc = "done"
    /\ report # None
    /\ \E i, j \in DOMAIN tasks :
          /\ Val(tasks[i].frame).raised
          /\ Info(j).activity_source = "Compute Engine"
          /\ projects[i] # projects[j]
          /\ \E k \in DOMAIN Rows : /\ Rows[k].project_id = projects[i]
                                    /\ Rows[k].activity_source = "Error"
          /\ \E k \in DOMAIN Rows : /\ Rows[k].project_id = projects[j]
                                    /\ Rows[k].activity_source = "Compute Engine"

\* The two projects of the end-to-end example: v found only a VM created five
\* days before the run, o found nothing but enabled services.
VmOnly(i) ==
    /\ Val(tasks[i].frame).compute.activity = Some(Stamp(FiveDaysAgo, TRUE))
    /\ Val(tasks[i].frame).storage.activity = None
ServicesOnly(i) ==
    /\ Val(tasks[i].frame).compute.activity = None
    /\ Val(tasks[i].frame).storage.activity = None
    /\ ApiActivity(Val(tasks[i].frame)) # None
EndToEnd(v, o) ==
    /\ pc = "done"
    /\ report # None
    /\ Len(tasks) = 2
    /\ v # o
    /\ VmOnly(v)
    /\ ServicesOnly(o)

\* C2 as stated: the report of the example has two rows, the VM project
\* first with source "Compute Engine", then the other project with source
\* "API Usage" and a timestamp taken while the run was going on.
C2_VmProjectFirst ==
    \A v, o \in DOMAIN tasks : EndToEnd(v, o) =>
        /\ Len(Rows) = 2
        /\ Rows[1].project_id = projects[v]
        /\ Rows[1].activity_source = "Compute Engine"
        /\ Rows[2].project_id = projects[o]
        /\ Rows[2].activity_source = "API Usage"
        /\ Rows[2].last_activity.v \in 0..now

\* C2 as amended: the report of the example has two rows, the project with
\* source "API Usage" and a timestamp taken while the run was going on first,
\* then the VM project with source "Compute Engine", whatever the order in
\* which the two tasks completed.
C2_ApiUsageProjectFirst ==
    \A v, o \in DOMAIN tasks : EndToEnd(v, o) =>
        /\ Len(Rows) = 2
        /\ Rows[1].project_id = projects[o]
        /\ Rows[1].activity_source = "API Usage"
        /\ Rows[1].last_activity.v \in 0..now
        /\ Rows[2].project_id = projects[v]
        /\ Rows[2].activity_source = "Compute Engine"
        /\ Rows[2].last_activity.v = FiveDaysAgo

\* C2 witness: the example's report was written, the VM project having been
\* submitted first.
C2_Witness ==
    /\ EndToEnd(1, 2)
    /\ projects[1] # projects[2]

====
